---------------------------- MODULE Spec2Model ----------------------------
(***************************************************************************)
(* Model of drive.py: the VESC motor controller class and the script's    *)
(* camera -> vision -> steering -> actuation loop.                         *)
(*                                                                         *)
(* Numbers.  The program computes with floats; the model computes with     *)
(* fixed-point integers.  A program value x (an angle, a throttle, a       *)
(* percent, a scale, an offset) is the integer x * Scale.  A value sent    *)
(* to the transport is a product of two such values, so it is kept in      *)
(* units of 1 / Scale^2 (x * Scale * Scale), which makes                   *)
(* angle * steering_scale + steering_offset and throttle * percent exact.  *)
(***************************************************************************)
EXTENDS Integers, Sequences, FiniteSets

\* Two decimal digits of fixed point: 0.15 is 15, 1.0 is 100.
Scale == 10 ^ 2

\* drive.py:8  THROTTLE = 0.15
THROTTLE == 15

\* drive.py:108  ord('q')
KeyQ == 113

\* ---------------------------------------------------------------- bounds
\* Frames the camera queue delivers before qRgb.get() blocks for good.
MaxFrames == 3
\* run() calls the class-level driver (SpecVESC) makes on one controller.
MaxRuns == 2

\* ---------------------------------------------------------------- inputs
\* Values of `percent` a caller may pass to VESC(...): out of range on both
\* sides, both bounds, and the default 0.2.
PercentArgs == {-130, -100, 20, 100, 130}
\* Values of steering_scale / steering_offset a caller may pass.
ScaleArgs == {100, 200}
OffsetArgs == {0, 50}
\* Angles and throttles a caller may pass to run(); 150 is outside [-1, 1].
Angles == {-100, -50, 50, 100}
Throttles == {-100, 15, 100, 150}
\* Steering lines a vision pipeline may return, each named by the normalized
\* offset toolbox.steering_command derives from it; NoLine is Python's None.
NoLine == << >>
Lines == {<<-30>>, <<50>>}
\* Angles steering_command may return for a None line (toolbox is not part
\* of the sources; any policy, including raising, is allowed for).
NoLineAngles == {-30, 0}
\* What cv2.waitKey(1) returns: no key (-1), 'q', or another key ('x').
Keys == {-1, KeyQ, 120}

Abs(x) == IF x < 0 THEN -x ELSE x

VARIABLES
    pc,             \* position of the script / of the constructor
    args,           \* arguments of the VESC(...) call
    vesc,           \* the VESC object's fields: steering_scale, steering_offset, percent, v
    device,         \* dai.Device context: "none", "open", "closed"
    windows,        \* cv2 windows: "none", "shown", "destroyed"
    frame,          \* local `frame`: number of the frame acquired last (0: none)
    overlay,        \* local `overlay`: which pipeline drew it, on which frame
    steering_line,  \* local `steering_line`
    steering_cmd,   \* local `steering_cmd`
    trace           \* history: the calls made on the collaborators, in order

vars == <<pc, args, vesc, device, windows, frame, overlay, steering_line, steering_cmd, trace>>

\* ------------------------------------------------------------- history
Ev(ev, fr, val, ok) == [ev |-> ev, frame |-> fr, val |-> val, ok |-> ok]

Idx(ev) == {i \in DOMAIN trace : trace[i].ev = ev}
Count(ev) == Cardinality(Idx(ev))
IdxOf(ev, fr) == {i \in DOMAIN trace : trace[i].ev = ev /\ trace[i].frame = fr}

\* ------------------------------------------------------------- VESC class
NoOverlay == [by |-> "none", frame |-> 0]
UnsetVesc == [steering_scale |-> 0, steering_offset |-> 0, percent |-> 0, v |-> "unset"]

\* drive.py:75  VESC('/dev/ttyACM0', steering_offset=0.5) with the defaults of 34-43
MainArgs == [percent |-> 20, steering_scale |-> 100, steering_offset |-> 50]

\* The range test with strict comparisons: the bounds -1 and 1 rejected.
PercentOk_Strict(percent) == percent < Scale /\ percent > -Scale

\* drive.py:55  percent <= 1 and percent >= -1
PercentOk(percent) == percent <= Scale /\ percent >= -Scale

\* An exception leaving the script: inside the `with dai.Device(...)` block
\* the context manager closes the device on the way out; nothing else runs.
Raise ==
    /\ pc' = "aborted"
    /\ device' = IF device = "open" THEN "closed" ELSE device

\* drive.py:44-53  import pyvesc, re-raised when it fails
VescImport ==
    /\ pc = "vesc_import"
    /\ \E ok \in BOOLEAN :
          /\ trace' = Append(trace, Ev("import", 0, 0, ok))
          /\ IF ok THEN pc' = "vesc_assert" /\ device' = device
                   ELSE Raise
    /\ UNCHANGED <<args, vesc, windows, frame, overlay, steering_line, steering_cmd>>

\* drive.py:55-58  the assertion on percent, then the three field assignments
VescAssert ==
    /\ pc = "vesc_assert"
    /\ IF PercentOk(args.percent)
          THEN /\ vesc' = [vesc EXCEPT !.steering_scale = args.steering_scale,
                                       !.steering_offset = args.steering_offset,
                                       !.percent = args.percent]
               /\ pc' = "vesc_open"
               /\ device' = device
          ELSE /\ Raise
               /\ vesc' = vesc
    /\ UNCHANGED <<args, windows, frame, overlay, steering_line, steering_cmd, trace>>

\* VescOpen with the exception swallowed: the handler prints and returns.
VescOpen_NoReraise ==
    /\ pc = "vesc_open"
    /\ \E ok \in BOOLEAN :
          /\ trace' = Append(trace, Ev("open", 0, 0, ok))
          /\ vesc' = IF ok THEN [vesc EXCEPT !.v = "open"] ELSE vesc
          /\ pc' = "constructed"
          /\ device' = device
    /\ UNCHANGED <<args, windows, frame, overlay, steering_line, steering_cmd>>

\* drive.py:60-67  self.v = pyvesc.VESC(...), re-raised when it fails
VescOpen ==
    /\ pc = "vesc_open"
    /\ \E ok \in BOOLEAN :
          /\ trace' = Append(trace, Ev("open", 0, 0, ok))
          /\ IF ok THEN /\ vesc' = [vesc EXCEPT !.v = "open"]
                        /\ pc' = "constructed"
                        /\ device' = device
                   ELSE /\ Raise
                        /\ vesc' = vesc
    /\ UNCHANGED <<args, windows, frame, overlay, steering_line, steering_cmd>>

\* The servo value clamped to the servo's range [0, 1].
ServoValue_Clamped(self, angle) ==
    LET x == (angle * self.steering_scale) + self.steering_offset * Scale
    IN  IF x < 0 THEN 0 ELSE IF x > Scale * Scale THEN Scale * Scale ELSE x

\* drive.py:70  (angle * self.steering_scale) + self.steering_offset
ServoValue(self, angle) == (angle * self.steering_scale) + self.steering_offset * Scale

\* The duty cycle without the percent limit.
DutyValue_Unlimited(self, throttle) == throttle * Scale

\* drive.py:71  throttle*self.percent
DutyValue(self, throttle) == throttle * self.percent

\* run with the two transport calls in the other order.
run_DutyFirst(self, angle, throttle, fr, outcome) ==
    << Ev("run", fr, <<angle, throttle>>, outcome = "ok"),
       Ev("set_duty_cycle", fr, DutyValue(self, throttle), outcome # "duty") >>
    \o (IF outcome = "duty" THEN << >>
        ELSE << Ev("set_servo", fr, ServoValue(self, angle), outcome # "servo") >>)

\* drive.py:69-71  VESC.run: the calls it makes on self.v, in order.  outcome
\* says which transport call, if any, raises: "ok", "servo", "duty".
run(self, angle, throttle, fr, outcome) ==
    << Ev("run", fr, <<angle, throttle>>, outcome = "ok"),
       Ev("set_servo", fr, ServoValue(self, angle), outcome # "servo") >>
    \o (IF outcome = "servo" THEN << >>
        ELSE << Ev("set_duty_cycle", fr, DutyValue(self, throttle), outcome # "duty") >>)

RunOutcomes == {"ok", "servo", "duty"}

\* ------------------------------------------------------------- the script
\* drive.py:77-84  build the camera pipeline description
SetupPipeline ==
    /\ pc = "constructed"
    /\ pc' = "device"
    /\ UNCHANGED <<args, vesc, device, windows, frame, overlay, steering_line, steering_cmd, trace>>

\* drive.py:86-92  enter `with dai.Device(...)`, get the output queue
OpenDevice ==
    /\ pc = "device"
    /\ \E ok \in BOOLEAN :
          IF ok THEN pc' = "acquire" /\ device' = "open"
                ELSE Raise
    /\ UNCHANGED <<args, vesc, windows, frame, overlay, steering_line, steering_cmd, trace>>

\* Acquire with a reconnect: when the queue fails the device is closed and
\* the script goes back to opening it.
Acquire_Reconnect ==
    /\ pc = "acquire"
    /\ Count("acquire") < MaxFrames
    /\ \E ok \in BOOLEAN :
          IF ok THEN /\ frame' = Count("acquire") + 1
                     /\ trace' = Append(trace, Ev("acquire", Count("acquire") + 1, 0, TRUE))
                     /\ pc' = "primary"
                     /\ device' = device
                ELSE /\ pc' = "device"
                     /\ device' = "closed"
                     /\ UNCHANGED <<frame, trace>>
    /\ UNCHANGED <<args, vesc, windows, overlay, steering_line, steering_cmd>>

\* drive.py:93-95  inRgb = qRgb.get(); frame = inRgb.getCvFrame()
Acquire ==
    /\ pc = "acquire"
    /\ Count("acquire") < MaxFrames
    /\ \E ok \in BOOLEAN :
          IF ok THEN /\ frame' = Count("acquire") + 1
                     /\ trace' = Append(trace, Ev("acquire", Count("acquire") + 1, 0, TRUE))
                     /\ pc' = "primary"
                     /\ device' = device
                ELSE /\ Raise
                     /\ UNCHANGED <<frame, trace>>
    /\ UNCHANGED <<args, vesc, windows, overlay, steering_line, steering_cmd>>

\* Primary with the fallback test dropped: the lane-detection pipeline
\* runs after the primary whatever the primary returned.
Primary_AlwaysFallback ==
    /\ pc = "primary"
    /\ \/ \E line \in Lines \cup {NoLine} :
             /\ trace' = Append(trace, Ev("yellow", frame, line, TRUE))
             /\ overlay' = [by |-> "yellow", frame |-> frame]
             /\ steering_line' = line
             /\ pc' = "fallback"
             /\ device' = device
       \/ /\ trace' = Append(trace, Ev("yellow", frame, NoLine, FALSE))
          /\ Raise
          /\ UNCHANGED <<overlay, steering_line>>
    /\ UNCHANGED <<args, vesc, windows, frame, steering_cmd>>

\* drive.py:97-98  overlay, steering_line = run_yellow_segmentation_pipeline(frame)
\* and the test `if steering_line is None`
Primary ==
    /\ pc = "primary"
    /\ \/ \E line \in Lines \cup {NoLine} :
             /\ trace' = Append(trace, Ev("yellow", frame, line, TRUE))
             /\ overlay' = [by |-> "yellow", frame |-> frame]
             /\ steering_line' = line
             /\ pc' = IF line = NoLine THEN "fallback" ELSE "steer"
             /\ device' = device
       \/ /\ trace' = Append(trace, Ev("yellow", frame, NoLine, FALSE))
          /\ Raise
          /\ UNCHANGED <<overlay, steering_line>>
    /\ UNCHANGED <<args, vesc, windows, frame, steering_cmd>>

\* Fallback with its overlay discarded: only the line is taken.
Fallback_DropsOverlay ==
    /\ pc = "fallback"
    /\ \/ \E line \in Lines \cup {NoLine} :
             /\ trace' = Append(trace, Ev("lane", frame, line, TRUE))
             /\ overlay' = overlay
             /\ steering_line' = line
             /\ pc' = "steer"
             /\ device' = device
       \/ /\ trace' = Append(trace, Ev("lane", frame, NoLine, FALSE))
          /\ Raise
          /\ UNCHANGED <<overlay, steering_line>>
    /\ UNCHANGED <<args, vesc, windows, frame, steering_cmd>>

\* Fallback with its line discarded: only the overlay is taken.
Fallback_DropsLine ==
    /\ pc = "fallback"
    /\ \/ \E line \in Lines \cup {NoLine} :
             /\ trace' = Append(trace, Ev("lane", frame, line, TRUE))
             /\ overlay' = [by |-> "lane", frame |-> frame]
             /\ steering_line' = steering_line
             /\ pc' = "steer"
             /\ device' = device
       \/ /\ trace' = Append(trace, Ev("lane", frame, NoLine, FALSE))
          /\ Raise
          /\ UNCHANGED <<overlay, steering_line>>
    /\ UNCHANGED <<args, vesc, windows, frame, steering_cmd>>

\* drive.py:99  overlay, steering_line = run_lane_detection_pipeline(frame)
Fallback ==
    /\ pc = "fallback"
    /\ \/ \E line \in Lines \cup {NoLine} :
             /\ trace' = Append(trace, Ev("lane", frame, line, TRUE))
             /\ overlay' = [by |-> "lane", frame |-> frame]
             /\ steering_line' = line
             /\ pc' = "steer"
             /\ device' = device
       \/ /\ trace' = Append(trace, Ev("lane", frame, NoLine, FALSE))
          /\ Raise
          /\ UNCHANGED <<overlay, steering_line>>
    /\ UNCHANGED <<args, vesc, windows, frame, steering_cmd>>

\* toolbox.steering_command(steering_line, width): the normalized offset of
\* the line; for None the set of angles it may return.
steering_command(line) == IF line = NoLine THEN NoLineAngles ELSE {line[1]}

\* Steer holding the previous command when no line was found: the
\* steering command is recomputed only for a line.
Steer_HoldsLast ==
    /\ pc = "steer"
    /\ IF steering_line = NoLine
          THEN UNCHANGED <<steering_cmd, trace>>
          ELSE \E a \in steering_command(steering_line) :
                  /\ steering_cmd' = a
                  /\ trace' = Append(trace, Ev("steering_command", frame, <<steering_line, a>>, TRUE))
    /\ pc' = "run"
    /\ UNCHANGED <<args, vesc, device, windows, frame, overlay, steering_line>>

\* Steer with actuation skipped when no line was found.
Steer_SkipRunWithoutLine ==
    /\ pc = "steer"
    /\ \/ \E a \in steering_command(steering_line) :
             /\ steering_cmd' = a
             /\ pc' = IF steering_line = NoLine THEN "render" ELSE "run"
             /\ trace' = Append(trace, Ev("steering_command", frame, <<steering_line, a>>, TRUE))
             /\ device' = device
       \/ /\ steering_line = NoLine
          /\ trace' = Append(trace, Ev("steering_command", frame, <<steering_line, 0>>, FALSE))
          /\ Raise
          /\ UNCHANGED steering_cmd
    /\ UNCHANGED <<args, vesc, windows, frame, overlay, steering_line>>

\* drive.py:101-102  steering_cmd = toolbox.steering_command(...); print
Steer ==
    /\ pc = "steer"
    /\ \/ \E a \in steering_command(steering_line) :
             /\ steering_cmd' = a
             /\ pc' = "run"
             /\ trace' = Append(trace, Ev("steering_command", frame, <<steering_line, a>>, TRUE))
             /\ device' = device
       \/ /\ steering_line = NoLine
          /\ trace' = Append(trace, Ev("steering_command", frame, <<steering_line, 0>>, FALSE))
          /\ Raise
          /\ UNCHANGED steering_cmd
    /\ UNCHANGED <<args, vesc, windows, frame, overlay, steering_line>>

\* Actuate placed after the display: the frame is shown, then run() is called.
Actuate_AfterRender ==
    /\ pc = "run"
    /\ windows' = "shown"
    /\ \E outcome \in RunOutcomes :
          /\ trace' = Append(trace, Ev("imshow", frame, overlay, TRUE))
                          \o run(vesc, steering_cmd, THROTTLE, frame, outcome)
          /\ IF outcome = "ok" THEN pc' = "poll" /\ device' = device
                               ELSE Raise
    /\ UNCHANGED <<args, vesc, frame, overlay, steering_line, steering_cmd>>

\* Actuate with run() keeping the scaled throttle in self.percent.
Actuate_StoresDuty ==
    /\ pc = "run"
    /\ vesc' = [vesc EXCEPT !.percent = DutyValue(vesc, THROTTLE) \div Scale]
    /\ \E outcome \in RunOutcomes :
          /\ trace' = trace \o run(vesc, steering_cmd, THROTTLE, frame, outcome)
          /\ IF outcome = "ok" THEN pc' = "render" /\ device' = device
                               ELSE Raise
    /\ UNCHANGED <<args, windows, frame, overlay, steering_line, steering_cmd>>

\* Actuate with the throttle cut to zero when no line was found.
Actuate_StopsWithoutLine ==
    /\ pc = "run"
    /\ \E outcome \in RunOutcomes :
          /\ trace' = trace \o run(vesc, steering_cmd,
                                    IF steering_line = NoLine THEN 0 ELSE THROTTLE,
                                    frame, outcome)
          /\ IF outcome = "ok" THEN pc' = "render" /\ device' = device
                               ELSE Raise
    /\ UNCHANGED <<args, vesc, windows, frame, overlay, steering_line, steering_cmd>>

\* drive.py:103  vesc.run(steering_cmd, THROTTLE)
Actuate ==
    /\ pc = "run"
    /\ \E outcome \in RunOutcomes :
          /\ trace' = trace \o run(vesc, steering_cmd, THROTTLE, frame, outcome)
          /\ IF outcome = "ok" THEN pc' = "render" /\ device' = device
                               ELSE Raise
    /\ UNCHANGED <<args, vesc, windows, frame, overlay, steering_line, steering_cmd>>

\* Render with a waitKey of its own after imshow, its result dropped.
Render_WithWaitKey ==
    /\ pc = "render"
    /\ \E key \in Keys :
          trace' = trace \o << Ev("imshow", frame, overlay, TRUE),
                               Ev("waitKey", frame, key, TRUE) >>
    /\ windows' = "shown"
    /\ pc' = "poll"
    /\ UNCHANGED <<args, vesc, device, frame, overlay, steering_line, steering_cmd>>

\* drive.py:105-107  blend frame and overlay, resize, cv2.imshow
Render ==
    /\ pc = "render"
    /\ trace' = Append(trace, Ev("imshow", frame, overlay, TRUE))
    /\ windows' = "shown"
    /\ pc' = "poll"
    /\ UNCHANGED <<args, vesc, device, frame, overlay, steering_line, steering_cmd>>

\* Poll with the break lost: the key is read and the loop goes on.
Poll_NoBreak ==
    /\ pc = "poll"
    /\ \E key \in Keys :
          /\ trace' = Append(trace, Ev("waitKey", frame, key, TRUE))
          /\ pc' = "acquire"
    /\ UNCHANGED <<args, vesc, device, windows, frame, overlay, steering_line, steering_cmd>>

\* drive.py:108-109  if cv2.waitKey(1) == ord('q'): break
Poll ==
    /\ pc = "poll"
    /\ \E key \in Keys :
          /\ trace' = Append(trace, Ev("waitKey", frame, key, TRUE))
          /\ pc' = IF key = KeyQ THEN "exit_with" ELSE "acquire"
    /\ UNCHANGED <<args, vesc, device, windows, frame, overlay, steering_line, steering_cmd>>

\* drive.py:86  leaving the `with` block after the break closes the device
ExitWith ==
    /\ pc = "exit_with"
    /\ device' = "closed"
    /\ pc' = "destroy"
    /\ UNCHANGED <<args, vesc, windows, frame, overlay, steering_line, steering_cmd, trace>>

\* drive.py:110  cv2.destroyAllWindows(), then the script ends
DestroyWindows ==
    /\ pc = "destroy"
    /\ windows' = "destroyed"
    /\ pc' = "done"
    /\ UNCHANGED <<args, vesc, device, frame, overlay, steering_line, steering_cmd, trace>>

\* A caller of the class other than the script: run(angle, throttle) on a
\* constructed controller, with any arguments.
RunCall ==
    /\ pc = "constructed"
    /\ Count("run") < MaxRuns
    /\ \E a \in Angles, t \in Throttles, outcome \in RunOutcomes :
          trace' = trace \o run(vesc, a, t, 0, outcome)
    /\ UNCHANGED <<pc, args, vesc, device, windows, frame, overlay, steering_line, steering_cmd>>

\* ------------------------------------------------------- specifications
InitWith(a) ==
    /\ pc = "vesc_import"
    /\ args = a
    /\ vesc = UnsetVesc
    /\ device = "none"
    /\ windows = "none"
    /\ frame = 0
    /\ overlay = NoOverlay
    /\ steering_line = NoLine
    /\ steering_cmd = 0
    /\ trace = << >>

\* The script as written: drive.py:74-110.
Init == InitWith(MainArgs)

\* The script with any `percent` in its VESC(...) call.
InitCfg ==
    \E p \in PercentArgs : InitWith([MainArgs EXCEPT !.percent = p])

\* The class constructed with any arguments.
InitVESC ==
    \E p \in PercentArgs, s \in ScaleArgs, o \in OffsetArgs :
        InitWith([percent |-> p, steering_scale |-> s, steering_offset |-> o])

Next ==
    \/ VescImport
    \/ VescAssert
    \/ VescOpen
    \/ SetupPipeline
    \/ OpenDevice
    \/ Acquire
    \/ Primary
    \/ Fallback
    \/ Steer
    \/ Actuate
    \/ Render
    \/ Poll
    \/ ExitWith
    \/ DestroyWindows

\* The class alone: construction with any arguments, then run() calls.
NextVESC ==
    \/ VescImport
    \/ VescAssert
    \/ VescOpen
    \/ RunCall

Spec == Init /\ [][Next]_vars
SpecCfg == InitCfg /\ [][Next]_vars
SpecVESC == InitVESC /\ [][NextVESC]_vars

\* Once the loop is left by the break, the with-exit and destroyAllWindows
\* are straight-line code: they run.
FairSpec == Spec /\ WF_vars(ExitWith) /\ WF_vars(DestroyWindows)

\* ------------------------------------------------------- lifecycle names
Initializing == pc \in {"vesc_import", "vesc_assert", "vesc_open", "constructed", "device"}
Streaming == pc \in {"acquire", "primary", "fallback", "steer", "run", "render", "poll"}
ShuttingDown == pc \in {"exit_with", "destroy"}
Terminated == pc \in {"done", "aborted"}

\* ------------------------------------------------------------- claims
\* The range [-1, 1] as the claims state it.
InRange(x) == -Scale <= x /\ x <= Scale

\* The script is between two cycles, or has left the loop by the break.
CycleEnd == pc \in {"acquire", "exit_with", "destroy", "done"}

\* C1: one run() call per acquired frame.  No frame gets two run() calls,
\* every run() call is for a frame that was acquired, the cycle reaches
\* rendering only with the run() call of its frame made, and at the end
\* of every cycle the run() calls are as many as the frames acquired.
C1_OneRunPerFrame ==
    /\ \A k \in 1..Count("acquire") : Cardinality(IdxOf("run", k)) <= 1
    /\ \A i \in Idx("run") : IdxOf("acquire", trace[i].frame) # {}
    /\ pc \in {"render", "poll"} => Cardinality(IdxOf("run", frame)) = 1
    /\ CycleEnd => Count("run") = Count("acquire")

C1_Witness ==
    /\ pc = "acquire"
    /\ Count("acquire") = 2
    /\ Count("run") = 2
    /\ Count("lane") >= 1

\* C2: the fallback pipeline is invoked if and only if the primary returned
\* no line for the frame.  Every fallback call directly follows a primary
\* call on the same frame that returned (did not raise) with no line, and
\* every primary call that returned no line is followed by the fallback
\* call on its frame (or the script stands right before that call).
C2_FallbackIffPrimaryAbsent ==
    /\ \A i \in Idx("lane") :
          /\ i > 1
          /\ trace[i - 1].ev = "yellow"
          /\ trace[i - 1].ok
          /\ trace[i - 1].val = NoLine
          /\ trace[i - 1].frame = trace[i].frame
          /\ Cardinality(IdxOf("lane", trace[i].frame)) = 1
    /\ \A i \in Idx("yellow") :
          (trace[i].ok /\ trace[i].val = NoLine)
             => IF i = Len(trace) THEN pc = "fallback"
                ELSE trace[i + 1].ev = "lane" /\ trace[i + 1].frame = trace[i].frame
    /\ pc = "fallback" => /\ trace[Len(trace)].ev = "yellow"
                          /\ trace[Len(trace)].val = NoLine
                          /\ trace[Len(trace)].ok
                          /\ trace[Len(trace)].frame = frame

C2_Witness ==
    /\ pc = "steer"
    /\ \E i \in Idx("lane") : trace[i].frame = 1
    /\ \E i \in Idx("yellow") : trace[i].frame = 2 /\ trace[i].val # NoLine
    /\ IdxOf("lane", 2) = {}

\* The stop key has been read by waitKey.
StopPolled == \E i \in Idx("waitKey") : trace[i].val = KeyQ

\* C3: once the stop key has been polled no further frame is acquired, no
\* further run() call is made, the script is out of the loop for good, and
\* it reaches the end of the script.
C3_StopEndsLoop ==
    /\ [][StopPolled => /\ Count("acquire")' = Count("acquire")
                        /\ Count("run")' = Count("run")
                        /\ ~Streaming'
                        /\ pc' # "aborted"]_vars
    /\ [](StopPolled => ~Streaming)
    /\ (StopPolled ~> pc = "done")

C3_Witness ==
    /\ pc = "done"
    /\ StopPolled
    /\ Count("waitKey") = 2
    /\ Count("acquire") = 2

\* The constructor raised: the script is over and no transport handle exists.
ConstructFailed == pc = "aborted" /\ vesc.v = "unset"
ImportOk == \E i \in Idx("import") : trace[i].ok

\* C4: a percent outside [-1, 1] fails construction before the transport is
\* opened: no open is ever attempted, no handle exists and the script gets
\* no further than the assertion.  A percent inside [-1, 1], bounds
\* included, passes the assertion once it is reached: the constructor then
\* stands at the open, or has attempted it.
C4_PercentValidatedBeforeOpen ==
    /\ ~InRange(args.percent) =>
          /\ Count("open") = 0
          /\ vesc.v = "unset"
          /\ pc \in {"vesc_import", "vesc_assert", "aborted"}
    /\ (InRange(args.percent) /\ ImportOk /\ pc # "vesc_assert") =>
          \/ pc = "vesc_open" /\ Count("open") = 0 /\ vesc.percent = args.percent
          \/ Count("open") = 1

C4_Witness ==
    /\ args.percent = 130
    /\ ImportOk
    /\ ConstructFailed
    /\ Count("open") = 0

\* C5: for a throttle in [-1, 1] the duty cycle run() sends is
\* throttle * percent, percent being the constructor's argument, and its
\* magnitude is at most |percent|.
C5_DutyIsThrottleTimesPercent ==
    \A i \in Idx("set_duty_cycle") :
        /\ i > 2
        /\ trace[i - 2].ev = "run"
        /\ InRange(args.percent)
        /\ LET throttle == trace[i - 2].val[2]
           IN  InRange(throttle) =>
                  /\ trace[i].val = throttle * args.percent
                  /\ Abs(trace[i].val) <= Abs(args.percent) * Scale

C5_Witness ==
    \E i \in Idx("set_duty_cycle") :
        /\ trace[i - 2].val[2] = -100
        /\ args.percent = 20
        /\ trace[i].val = -2000
        /\ trace[i].ok

\* C6: the servo value run() sends is angle * steering_scale +
\* steering_offset, the scale and offset being the constructor's
\* arguments, with no clamping.
C6_ServoIsScaledAngle ==
    \A i \in Idx("set_servo") :
        /\ i > 1
        /\ trace[i - 1].ev = "run"
        /\ LET angle == trace[i - 1].val[1]
           IN  InRange(angle) =>
                  trace[i].val = angle * args.steering_scale + args.steering_offset * Scale

C6_Witness ==
    /\ args.steering_scale = 100
    /\ args.steering_offset = 50
    /\ \E i \in Idx("set_servo") : trace[i - 1].val[1] = 50 /\ trace[i].val = 10000
    /\ \E i \in Idx("set_servo") : trace[i - 1].val[1] = -100 /\ trace[i].val = -5000

\* C7: at the end of the script after a stop signal the display resources
\* and the motor controller's transport have been released.
C7_ShutdownReleasesAll ==
    (pc = "done" /\ StopPolled) => (windows = "destroyed" /\ vesc.v # "open")

\* C8: when a failure inside a streaming cycle ends the script, the
\* transport has been released by then.
C8_FailureReleasesActuator ==
    (pc = "aborted" /\ Count("acquire") >= 1) => vesc.v # "open"

\* C9: a failed construction is final.  The transport open is attempted at
\* most once, the loop runs only with a constructed controller, and once
\* the constructor has raised the script stays ended: no device is opened,
\* no frame is acquired and no run() call is made.
C9_InitFailureIsFatal ==
    /\ [](Count("open") <= 1)
    /\ []((Streaming \/ ShuttingDown \/ pc = "done") =>
             /\ vesc.v = "open"
             /\ InRange(vesc.percent)
             /\ \E i \in Idx("open") : trace[i].ok)
    /\ [](ConstructFailed =>
             /\ device = "none"
             /\ Count("acquire") = 0
             /\ Count("run") = 0)
    /\ [][ConstructFailed => UNCHANGED vars]_vars

C9_Witness ==
    /\ ConstructFailed
    /\ InRange(args.percent)
    /\ Count("open") = 1
    /\ \E i \in Idx("open") : ~trace[i].ok

\* C10: the frame of a cycle is handed to the display only after the run()
\* call for that frame has been made.
C10_RunBeforeRender ==
    \A i \in Idx("imshow") :
        \E j \in IdxOf("run", trace[i].frame) : j < i /\ trace[j].ok

C10_Witness ==
    /\ pc = "poll"
    /\ Count("imshow") = 2
    /\ Count("run") = 2

\* Position in the lifecycle: 0 Initializing, 1 Streaming, 2 ShuttingDown,
\* 3 Terminated.
Rank ==
    IF Initializing THEN 0
    ELSE IF Streaming THEN 1
    ELSE IF ShuttingDown THEN 2
    ELSE 3

\* C11: the lifecycle only moves forward through Initializing, Streaming,
\* ShuttingDown, Terminated: no step lowers the rank, Initializing is not
\* re-entered once left, Streaming is not re-entered after ShuttingDown,
\* and Terminated is final.
C11_LifecycleMonotonic ==
    /\ [](Initializing \/ Streaming \/ ShuttingDown \/ Terminated)
    /\ [][Rank' >= Rank]_vars
    /\ [][~Initializing => ~Initializing']_vars
    /\ [][(ShuttingDown \/ Terminated) => ~Streaming']_vars
    /\ [][Terminated => Terminated']_vars

C11_Witness ==
    /\ pc = "done"
    /\ Count("acquire") = 2
    /\ StopPolled

\* The line of the last estimate produced for frame k: the fallback's when
\* the fallback was invoked, else the primary's.
EstimatesOf(k) == {i \in DOMAIN trace : trace[i].frame = k /\ trace[i].ev \in {"yellow", "lane"}}
LastEstimate(k) ==
    trace[CHOOSE i \in EstimatesOf(k) : \A j \in EstimatesOf(k) : j <= i].val

\* C12: the angle of a cycle's run() call is the value steering_command
\* returned in that cycle, and that call was given the line of the last
\* estimate produced in the cycle (the fallback's line when the primary
\* returned none): the fallback's angle reaches run() unchanged.
C12_AngleFromLastEstimate ==
    \A i \in Idx("run") :
        LET k == trace[i].frame
        IN  /\ i > 1
            /\ trace[i - 1].ev = "steering_command"
            /\ trace[i - 1].frame = k
            /\ trace[i - 1].val[1] = LastEstimate(k)
            /\ trace[i - 1].ok
            /\ trace[i].val[1] = trace[i - 1].val[2]

C12_Witness ==
    \E i \in Idx("run") :
        /\ trace[i].val = <<-30, THROTTLE>>
        /\ \E j \in IdxOf("yellow", trace[i].frame) : trace[j].val = NoLine
        /\ \E j \in IdxOf("lane", trace[i].frame) : trace[j].val = <<-30>>
        /\ \E j \in Idx("set_servo") : j = i + 1 /\ trace[j].ok

C14_ThrottleIsFixed ==
    \A i \in Idx("run") : trace[i].val[2] = THROTTLE

C14_Witness ==
    /\ Count("run") = 3
    /\ \E i \in IdxOf("run", 1) : trace[i].val[1] = 50
    /\ \E i \in IdxOf("run", 2) : trace[i].val[1] = -30
    /\ \E i \in IdxOf("lane", 3) : trace[i].val = NoLine /\ trace[i].ok

\* C15: the stop signal is polled once per cycle, as the cycle's last step.
\* Each waitKey call directly follows the imshow of its frame, which follows
\* the run() call of that frame; a frame has at most one waitKey call; what
\* follows a waitKey call, if anything, is the next frame's acquisition,
\* and nothing follows the one that read the stop key; between cycles and
\* after the loop the polls are as many as the frames acquired.
C15_PollOncePerCycleLast ==
    /\ \A i \in Idx("waitKey") :
          LET k == trace[i].frame
          IN  /\ Cardinality(IdxOf("waitKey", k)) = 1
              /\ i > 1
              /\ trace[i - 1].ev = "imshow"
              /\ trace[i - 1].frame = k
              /\ \E j \in IdxOf("run", k) : j < i /\ trace[j].ok
              /\ i < Len(trace) =>
                    /\ trace[i].val # KeyQ
                    /\ trace[i + 1].ev = "acquire"
                    /\ trace[i + 1].frame = k + 1
    /\ CycleEnd => Count("waitKey") = Count("acquire")
    /\ Streaming /\ pc # "acquire" => Count("waitKey") = Count("acquire") - 1

C15_Witness ==
    /\ pc = "exit_with"
    /\ Count("waitKey") = 3
    /\ Count("run") = 3
    /\ trace[Len(trace)] = Ev("waitKey", 3, KeyQ, TRUE)

\* C16: the controller's steering_scale, steering_offset and percent are
\* those given to the constructor and no step after construction, run()
\* calls included, changes them.
C16_ConfigImmutable ==
    /\ [](vesc.v = "open" =>
             /\ vesc.steering_scale = args.steering_scale
             /\ vesc.steering_offset = args.steering_offset
             /\ vesc.percent = args.percent)
    /\ [][vesc.v = "open" => vesc' = vesc]_vars
    /\ [][args' = args]_vars

C16_Witness ==
    /\ Count("set_duty_cycle") = 3
    /\ args.percent = -100
    /\ vesc = [steering_scale |-> 100, steering_offset |-> 50, percent |-> -100, v |-> "open"]

\* C17: a run() call makes one set_servo call and then one set_duty_cycle
\* call.  When set_servo raises no set_duty_cycle call is made, and every
\* set_duty_cycle call directly follows the set_servo call, returned, of
\* the same run() call.
C17_ServoThenDuty ==
    /\ \A i \in Idx("run") :
          /\ i < Len(trace)
          /\ trace[i + 1].ev = "set_servo"
          /\ IF trace[i + 1].ok
                THEN /\ i + 2 <= Len(trace)
                     /\ trace[i + 2].ev = "set_duty_cycle"
                     /\ trace[i].ok = trace[i + 2].ok
                ELSE /\ ~trace[i].ok
                     /\ i + 2 <= Len(trace) => trace[i + 2].ev # "set_duty_cycle"
    /\ \A j \in Idx("set_servo") : j > 1 /\ trace[j - 1].ev = "run"
    /\ \A j \in Idx("set_duty_cycle") :
          /\ j > 2
          /\ trace[j - 1].ev = "set_servo"
          /\ trace[j - 1].ok
          /\ trace[j - 2].ev = "run"
    /\ Count("set_servo") = Count("run")
    /\ Count("set_duty_cycle") <= Count("run")

C17_Witness ==
    /\ Len(trace) = 7
    /\ trace[3].ev = "run"
    /\ trace[4].ev = "set_servo" /\ ~trace[4].ok
    /\ trace[5].ev = "run"
    /\ trace[6].ev = "set_servo" /\ trace[6].ok
    /\ trace[7].ev = "set_duty_cycle" /\ trace[7].ok

\* C18: the overlay shown in a cycle is the one returned by the last
\* pipeline invoked on the cycle's frame: the fallback's whenever the
\* fallback was invoked, also when it returned no line, else the primary's.
C18_OverlayOfLastStrategy ==
    \A i \in Idx("imshow") :
        LET k == trace[i].frame
        IN  trace[i].val = [by |-> IF IdxOf("lane", k) # {} THEN "lane" ELSE "yellow",
                            frame |-> k]

C18_Witness ==
    /\ Count("imshow") = 2
    /\ \E i \in IdxOf("imshow", 1) : trace[i].val.by = "yellow"
    /\ \E i \in IdxOf("lane", 2) : trace[i].val = NoLine
    /\ \E i \in IdxOf("imshow", 2) : trace[i].val = [by |-> "lane", frame |-> 2]

=============================================================================
